---------------------------- MODULE Spec2Model ----------------------------
(***************************************************************************)
(* Kachelmann Wetter integration (custom_components/kmw).                  *)
(*                                                                         *)
(* The model has two parts.                                                *)
(*   1. The refresh coordinator: async_setup_entry, the refresh cycle      *)
(*      KmwDataUpdateCoordinator._async_update_data with its three         *)
(*      endpoint fetchers, and the readers of coordinator.data.            *)
(*      One action is one run of a coroutine between two awaits.           *)
(*   2. The hourly series merge of KachelmannWeather._async_forecast_hourly*)
(*      as a pure function, checked under SpecMerge on bounded inputs.     *)
(***************************************************************************)
EXTENDS Integers, Sequences, FiniteSets, TLC

VARIABLES
    options_forecast,     \* config_entry.options[CONF_FORECAST]
    options_model,        \* config_entry.options.get(CONF_MODEL)
    reloads,              \* calls of update_listener that are scheduled
    unloadPc,             \* where a call of async_unload_entry stands
    conf_forecast,        \* the local conf_forecast of the last cycle begun
    setupPc,              \* position in async_setup_entry (0: entry not set up)
    runtime_data,         \* config_entry.runtime_data holds the coordinator
    listener,             \* update_listener is registered with the entry
    entities,             \* the platforms have been set up on the coordinator:
                          \* its weather entity exists
    data,                 \* coordinator.data: the published snapshot
    last_update_success,  \* coordinator.last_update_success
    last_exception,       \* coordinator.last_exception
    locals,               \* forecast_data, forecast_hourly, current_weather
    cycleKind,            \* "first" or "scheduled": who started the cycle
    requests,             \* endpoints requested in the current/last cycle
    responses,            \* responses received in the current/last cycle
                          \* (status, and the body if it was read)
    outcome,              \* "none", "inflight", "published", "failed"
    dataBefore,           \* coordinator.data when the current/last cycle began
    returned,             \* what _async_update_data returned last
    observed,             \* what a reader of coordinator.data got last in
                          \* the current/last cycle
    readInFlight,         \* that read happened while the cycle was in flight
    fine,                 \* merge input: data of "forecast_hourly"
    coarse,               \* merge input: data of "forecast_hourly_3h"
    now,                  \* merge input: dt_util.utcnow()
    merged,               \* merge output: None or ListOf(entries)
    mpc,                  \* merge position: "off", "input", "done", or
                          \* "daily" when the daily forecast was read
                          \* (the last call in the current/last cycle)
    currentSensors,       \* the current-value sensors exist
    failedBefore,         \* the cycle before the current/last one failed
    symbol,               \* mapper input: WeatherConditionInput.symbol
    day_night,            \* mapper input: WeatherConditionInput.day_night
    condition,            \* mapper output, or Pending before the call
    is_day,               \* the is-day flag of the data the caller reads
    site                  \* the caller of the mapper: "none", "mapper",
                          \* "current", "daily", "hourly"

coordVars == <<options_forecast, options_model, reloads, unloadPc,
               conf_forecast, setupPc, runtime_data, listener, entities, data,
               last_update_success, last_exception, locals, cycleKind,
               requests, responses, outcome, dataBefore, returned,
               observed, readInFlight, currentSensors, failedBefore>>
mergeVars == <<fine, coarse, now, merged, mpc>>
condVars == <<symbol, day_night, condition, is_day, site>>
vars == <<options_forecast, options_model, reloads, unloadPc,
          conf_forecast, setupPc, runtime_data, listener, entities, data,
          last_update_success, last_exception, locals, cycleKind,
          requests, responses, outcome, dataBefore, returned,
          observed, readInFlight, fine, coarse, now, merged, mpc,
          currentSensors, failedBefore, symbol, day_night, condition,
          is_day, site>>

---------------------------------------------------------------------------
(* Values *)

\* Python's None
None == [absent |-> TRUE]

\* A body on which response.json() raises
Malformed == [malformed |-> TRUE]

\* coordinator.py:28-30
HTTP_OK == 200
HTTP_OK_MAX == 299
HTTP_NOT_MODIFIED == 304

\* const.py:30
CONF_FORECAST_DEFAULT == TRUE

\* const.py:32
CONF_MODEL_DEFAULT == "SWISS1X1"

\* The statuses the trend endpoint answers with in the model, and those
\* the hourly and the current endpoint answer with
Statuses == {199, 200, 299, 300, 304, 503}
SoftStatuses == {200, 503}
StatusesOf(ep) == IF ep = "trend" THEN Statuses ELSE SoftStatuses

\* dict.get(key): the value, or None when the key is missing
Get(d, key) == IF key \in DOMAIN d THEN d[key] ELSE None

\* A Python list where None is possible too (list | None)
ListOf(s) == [list |-> s]

---------------------------------------------------------------------------
(* Timestamps and hourly entries.  A dateTime value is None (key missing   *)
(* or null), a string that is no date ("bad"), or an ISO-8601 string with  *)
(* a local hour h and a UTC offset off, e.g. "11:00+01:00".                *)

TsNone == [kind |-> "none", h |-> 0, off |-> 0]
TsBad == [kind |-> "bad", h |-> 0, off |-> 0]
Iso(h, off) == [kind |-> "iso", h |-> h, off |-> off]

\* weather.py _parse_time: None for a missing or unparseable value, else
\* the datetime of the instant the string denotes (hours, UTC)
NotParsed == [parsed |-> FALSE]
Parsed(t) == [parsed |-> TRUE, instant |-> t]
ParseTime(ts) ==
    IF ts.kind = "iso" THEN Parsed(ts.h - ts.off) ELSE NotParsed

\* Python truthiness of item.get("dateTime")
Truthy(ts) == ts.kind # "none"

\* An entry of an hourly series: its dateTime and, of its readings, temp
Item(ts, temp) == [dateTime |-> ts, temp |-> temp]

\* The temp the entries of the fine and of the coarse series carry in the
\* model: it tells in the output which series an entry came from
FineTemp == 1
CoarseTemp == 3

---------------------------------------------------------------------------
(* Payloads the three endpoints deliver *)

TrendPayloads ==
    { [data |-> <<[dateTime |-> 1, tempMax |-> 21],
                  [dateTime |-> 2, tempMax |-> 18]>>] }

HourlyPayloads ==
    { [data |-> <<>>],
      [data |-> <<Item(Iso(11, 0), FineTemp), Item(Iso(10, 0), FineTemp)>>] }

\* a payload with the readings under 'data', and one without that key
CurrentPayloads ==
    { [data |-> [temp |-> [value |-> 5]]],
      [message |-> "no data"] }

Payloads(ep) ==
    CASE ep = "trend" -> TrendPayloads
      [] ep = "hourly" -> HourlyPayloads
      [] ep = "current" -> CurrentPayloads

\* The body of a response that has not been read (response.json() has
\* not returned, or is never called)
Unread == [unread |-> TRUE]

\* What clientsession.get can produce for an endpoint: a response with a
\* status, its body not read, or an exception of the transport
Responses(ep) ==
    { [kind |-> "http", status |-> s, body |-> Unread] :
        s \in StatusesOf(ep) }
    \cup { [kind |-> "transport_error", status |-> 0, body |-> Unread] }

\* What response.json() can find as the body of a response
Bodies(ep) == Payloads(ep) \cup {Malformed}

---------------------------------------------------------------------------
(* Errors and results of a fetch *)

NoError == [type |-> "none"]
StatusError(status, ep) ==
    [type |-> "UpdateFailed", status |-> status, url |-> ep]
TransportError == [type |-> "ClientError"]
JsonError == [type |-> "JSONDecodeError"]
\* of a dict subscript d[key] on a missing key
KeyError == [type |-> "KeyError"]

Returns(v) == [raised |-> FALSE, value |-> v, err |-> NoError]
Raises(e) == [raised |-> TRUE, value |-> None, err |-> e]

\* coordinator.py:100, 116, 130
StatusOkExclusive(status) == HTTP_OK < status /\ status <= HTTP_OK_MAX
StatusOkTo304(status) == HTTP_OK <= status /\ status <= HTTP_NOT_MODIFIED
StatusOk(status) == HTTP_OK <= status /\ status <= HTTP_OK_MAX

\* await response.json()
ResponseJson(resp) ==
    IF resp.body = Malformed THEN Raises(JsonError) ELSE Returns(resp.body)

\* async_fetch_3day_forecast
Fetch3DayForecastSoft(resp) ==
    IF resp.kind = "transport_error" THEN Raises(TransportError)
    ELSE IF StatusOk(resp.status) THEN ResponseJson(resp)
    ELSE Returns(None)
Fetch3DayForecastSwallow(resp) ==
    IF resp.kind = "transport_error" THEN Returns(None)
    ELSE IF StatusOk(resp.status)
    THEN (IF resp.body = Malformed THEN Returns(None)
          ELSE Returns(resp.body))
    ELSE Raises(StatusError(resp.status, "trend"))
Fetch3DayForecast(resp) ==
    IF resp.kind = "transport_error" THEN Raises(TransportError)
    ELSE IF StatusOk(resp.status) THEN ResponseJson(resp)
    ELSE Raises(StatusError(resp.status, "trend"))

\* async_fetch_hourly_forecast
FetchHourlyForecastStrict(resp) ==
    IF resp.kind = "transport_error" THEN Raises(TransportError)
    ELSE IF StatusOk(resp.status) THEN ResponseJson(resp)
    ELSE Raises(StatusError(resp.status, "hourly"))
FetchHourlyForecast(resp) ==
    IF resp.kind = "transport_error" THEN Raises(TransportError)
    ELSE IF StatusOk(resp.status) THEN ResponseJson(resp)
    ELSE Returns(None)

\* async_fetch_current_weather
FetchCurrentWeatherSwallow(resp) ==
    IF resp.kind = "transport_error" THEN Returns(None)
    ELSE IF StatusOk(resp.status) /\ resp.body # Malformed
    THEN Returns(resp.body)
    ELSE Returns(None)
FetchCurrentWeather(resp) ==
    IF resp.kind = "transport_error" THEN Raises(TransportError)
    ELSE IF StatusOk(resp.status) THEN ResponseJson(resp)
    ELSE Returns(None)

Fetch(ep, resp) ==
    CASE ep = "trend" -> Fetch3DayForecast(resp)
      [] ep = "hourly" -> FetchHourlyForecast(resp)
      [] ep = "current" -> FetchCurrentWeather(resp)

\* coordinator.py:100-102, 116-117, 130-131: after its status passed the
\* check the body of a response is awaited (await response.json())
AwaitsJson(resp) == resp.kind = "http" /\ StatusOk(resp.status)

---------------------------------------------------------------------------
(* _async_update_data *)

\* coordinator.py:62-64: the three locals start as None
NoLocals ==
    [forecast_data |-> None, forecast_hourly |-> None,
     current_weather |-> None]

\* coordinator.py:66-79: the fetches of a cycle, in the order of the awaits
FetchPlanHourlyFirst(conf) ==
    IF conf THEN <<"hourly", "trend", "current">> ELSE <<>>
FetchPlanCurrentAlways(conf) ==
    IF conf THEN <<"trend", "hourly", "current">> ELSE <<"current">>
FetchPlan(conf) ==
    IF conf THEN <<"trend", "hourly", "current">> ELSE <<>>

\* coordinator.py:67, 70, 73: the local a fetch's result is assigned to
Assign(l, ep, v) ==
    CASE ep = "trend" -> [l EXCEPT !.forecast_data = v]
      [] ep = "hourly" -> [l EXCEPT !.forecast_hourly = v]
      [] ep = "current" -> [l EXCEPT !.current_weather = v]

\* coordinator.py:81-85: the dict the cycle returns
UpdateDataReturnWith3h(l) ==
    [forecast |-> l.forecast_data,
     forecast_hourly |-> l.forecast_hourly,
     forecast_hourly_3h |-> l.forecast_hourly,
     current |-> l.current_weather]
UpdateDataReturn(l) ==
    [forecast |-> l.forecast_data,
     forecast_hourly |-> l.forecast_hourly,
     current |-> l.current_weather]

\* coordinator.py:87-88: raise UpdateFailed(err) from err
UpdateFailed(err) == [type |-> "UpdateFailed", cause |-> err]

\* coordinator.py:62-79: while the fetches run the cycle assigns its locals
\* only; coordinator.data is not written
DataWhileFetchingInPlace(d, l) ==
    IF d = None THEN d
    ELSE [key \in DOMAIN d |->
             IF UpdateDataReturn(l)[key] # None
             THEN UpdateDataReturn(l)[key] ELSE d[key]]
DataWhileFetching(d, l) == d

---------------------------------------------------------------------------
(* DataUpdateCoordinator (Home Assistant base class): what it does with    *)
(* the outcome of _async_update_data                                       *)

\* self.data = await self._async_update_data()
Publish(result) ==
    /\ data' = result
    /\ last_update_success' = TRUE
    /\ UNCHANGED last_exception
    /\ outcome' = "published"

\* except UpdateFailed as err: data is kept
RefreshFailed(err) ==
    /\ data' = data
    /\ last_update_success' = FALSE
    /\ last_exception' = err
    /\ outcome' = "failed"

---------------------------------------------------------------------------
(* The entities: the weather entity and the sensors read coordinator.data  *)

\* v is None, for a value v of any type
IsNone(v) == ToString(v) = ToString(None)

\* Python truthiness of a value that is None, a dict or a list: None and
\* the empty dict and list are falsy
TruthyValue(v) == ~IsNone(v) /\ DOMAIN v # {}

\* sensor.py:44-45: the current-value sensors are created if the snapshot
\* at platform setup has a 'current' payload with a 'data' key
SensorSetupIgnoresData(d) == TruthyValue(Get(d, "current"))
SensorSetupHasCurrent(d) ==
    LET current == Get(d, "current")
    IN TruthyValue(current) /\ "data" \in DOMAIN current

\* weather.py:198-204: KachelmannWeather.available
AvailableIgnoresFailure(ok, d) == ~IsNone(Get(d, "current"))
AvailableNeedsHourly(ok, d) ==
    /\ ok
    /\ ~IsNone(Get(d, "current"))
    /\ ~IsNone(Get(d, "forecast_hourly"))
Available(ok, d) == ok /\ ~IsNone(Get(d, "current"))

\* weather.py:206-212: KachelmannWeather._get_current_data
GetCurrentData(d) ==
    LET current_data == Get(d, "current")
    IN IF ~TruthyValue(current_data) \/ ~TruthyValue(Get(current_data, "data"))
       THEN None
       ELSE current_data.data

\* weather.py:246-257: KachelmannWeather.native_temperature
NativeTemperature(d) ==
    LET current_day_data == GetCurrentData(d)
    IN IF ~TruthyValue(current_day_data) THEN Returns(None)
       ELSE IF ~TruthyValue(Get(current_day_data, "temp")) THEN Returns(None)
       ELSE IF "value" \in DOMAIN current_day_data.temp
       THEN Returns(current_day_data.temp.value)
       ELSE Raises(KeyError)

\* None.get(...)
AttributeError == [type |-> "AttributeError"]

\* sensor.py:153-157: KmwCurrentTempSensor.native_value,
\* data.get("current", {}).get("data", {}) and then
\* data.get("temp", {}).get("value"); the default {} of a get stands in
\* for a missing key only, not for a key whose value is None
CurrentTempSensorNativeValue(d) ==
    IF "current" \notin DOMAIN d THEN Returns(None)
    ELSE IF IsNone(d.current) THEN Raises(AttributeError)
    ELSE IF "data" \notin DOMAIN d.current THEN Returns(None)
    ELSE IF IsNone(d.current.data) THEN Raises(AttributeError)
    ELSE IF "temp" \notin DOMAIN d.current.data THEN Returns(None)
    ELSE IF IsNone(d.current.data.temp) THEN Raises(AttributeError)
    ELSE Returns(Get(d.current.data.temp, "value"))

---------------------------------------------------------------------------
(* The config entry: async_setup_entry, the options flow, update_listener  *)
(* and async_unload_entry.  The coordinator variables are those of the     *)
(* coordinator the entry's last setup constructed.                         *)

\* __init__.py:28-34: the steps of async_setup_entry, in program order
\* after the coordinator is constructed
SetupStepsForwardFirst ==
    <<"store_runtime_data", "forward_platforms", "first_refresh",
      "return_true">>
SetupSteps ==
    <<"first_refresh", "store_runtime_data", "forward_platforms",
      "return_true">>

Loaded == Len(SetupSteps) + 1
AtStep(name) ==
    /\ setupPc \in 1..Len(SetupSteps)
    /\ SetupSteps[setupPc] = name

\* What the last read handed to its caller is kept until the next step
\* that is no read
NoRead ==
    /\ observed' = None
    /\ readInFlight' = FALSE
    /\ fine' = <<>>
    /\ coarse' = <<>>
    /\ merged' = None
    /\ mpc' = "off"
    /\ UNCHANGED now

\* The entry's options and what is scheduled or running on the entry
entryVars == <<options_forecast, options_model, reloads, unloadPc>>

\* The coordinator and its cycle
cycleVars ==
    <<conf_forecast, data, last_update_success, last_exception, locals,
      cycleKind, requests, responses, outcome, dataBefore, returned,
      failedBefore>>

\* async_config_entry_first_refresh returns after a successful refresh
\* and raises ConfigEntryNotReady after a failed one: the setup is given
\* up, what it registered with async_on_unload is called (the update
\* listener is removed) and the entry is set up again later
AfterCycle(ok) ==
    IF cycleKind' = "first"
    THEN /\ setupPc' = (IF ok THEN setupPc + 1 ELSE 0)
         /\ listener' = (IF ok THEN listener ELSE FALSE)
    ELSE UNCHANGED <<setupPc, listener>>

\* The cycle up to its first await (or to its return, if it awaits nothing)
BeginCycle(kind) ==
    /\ cycleKind' = kind
    /\ conf_forecast' = options_forecast
    /\ dataBefore' = data
    /\ failedBefore' = (outcome = "failed")
    /\ responses' = <<>>
    /\ LET plan == FetchPlan(options_forecast) IN
       IF plan = <<>>
       THEN /\ requests' = <<>>
            /\ locals' = NoLocals
            /\ returned' = UpdateDataReturn(NoLocals)
            /\ Publish(UpdateDataReturn(NoLocals))
            /\ AfterCycle(TRUE)
       ELSE /\ requests' = <<plan[1]>>
            /\ locals' = NoLocals
            /\ data' = DataWhileFetching(data, NoLocals)
            /\ outcome' = "inflight"
            /\ UNCHANGED <<last_update_success, last_exception, setupPc,
                           listener, returned>>
    /\ UNCHANGED entryVars
    /\ UNCHANGED <<runtime_data, entities, currentSensors>>
    /\ NoRead
    /\ UNCHANGED condVars

\* __init__.py:26-28: async_setup_entry is called for an entry that is not
\* loaded; it registers update_listener and constructs the coordinator,
\* KmwDataUpdateCoordinator(hass, config_entry)
SetupConstruct ==
    /\ setupPc = 0
    /\ unloadPc = "none"
    /\ setupPc' = 1
    /\ listener' = TRUE
    /\ data' = None
    /\ last_update_success' = TRUE
    /\ last_exception' = NoError
    /\ locals' = NoLocals
    /\ outcome' = "none"
    /\ requests' = <<>>
    /\ responses' = <<>>
    /\ dataBefore' = None
    /\ returned' = None
    /\ runtime_data' = FALSE
    /\ entities' = FALSE
    /\ currentSensors' = FALSE
    /\ failedBefore' = FALSE
    /\ UNCHANGED <<conf_forecast, cycleKind>>
    /\ UNCHANGED entryVars
    /\ NoRead
    /\ UNCHANGED condVars

\* await coordinator.async_config_entry_first_refresh()
SetupFirstRefresh ==
    /\ AtStep("first_refresh")
    /\ outcome # "inflight"
    /\ BeginCycle("first")

\* config_entry.runtime_data = coordinator
SetupStoreRuntimeData ==
    /\ AtStep("store_runtime_data")
    /\ runtime_data' = TRUE
    /\ setupPc' = setupPc + 1
    /\ UNCHANGED <<listener, entities, currentSensors>>
    /\ UNCHANGED entryVars
    /\ UNCHANGED cycleVars
    /\ NoRead
    /\ UNCHANGED condVars

\* await hass.config_entries.async_forward_entry_setups(...): the weather
\* and the sensor platform are set up while async_setup_entry is suspended
SetupForwardPlatforms ==
    /\ AtStep("forward_platforms")
    /\ entities' = TRUE
    /\ currentSensors' = SensorSetupHasCurrent(data)
    /\ setupPc' = setupPc + 1
    /\ UNCHANGED <<listener, runtime_data>>
    /\ UNCHANGED entryVars
    /\ UNCHANGED cycleVars
    /\ NoRead
    /\ UNCHANGED condVars

\* __init__.py:34: async_setup_entry resumes and returns True; the entry
\* is loaded
SetupReturn ==
    /\ AtStep("return_true")
    /\ setupPc' = setupPc + 1
    /\ UNCHANGED <<listener, runtime_data, entities, currentSensors>>
    /\ UNCHANGED entryVars
    /\ UNCHANGED cycleVars
    /\ NoRead
    /\ UNCHANGED condVars

\* The models the options form is submitted with
Models == {CONF_MODEL_DEFAULT, "ICON"}

\* config_entry.options.get(key): the key is absent, or has a value
NoOption == [present |-> FALSE, value |-> ""]
Option(v) == [present |-> TRUE, value |-> v]

\* The calls of update_listener that can be scheduled and not yet run
MaxReloads == 2

\* config_flow.py:131-134: the options flow is finished with user input,
\* which has the keys current_weather (one value is allowed), forecast and
\* model, and the entry's options are replaced by it; with every change
\* of the options a call of each registered update listener is scheduled
OptionsFlow ==
    /\ \E forecast \in BOOLEAN, model \in Models :
          LET scheduled ==
                 /\ listener
                 /\ \/ forecast # options_forecast
                    \/ Option(model) # options_model
          IN /\ scheduled => reloads < MaxReloads
             /\ options_forecast' = forecast
             /\ options_model' = Option(model)
             /\ reloads' = (IF scheduled THEN reloads + 1 ELSE reloads)
    /\ UNCHANGED <<unloadPc, setupPc, listener, runtime_data, entities,
                   currentSensors>>
    /\ UNCHANGED cycleVars
    /\ NoRead
    /\ UNCHANGED condVars

\* __init__.py:42-44: async_unload_entry runs to its await of
\* async_forward_entry_unload(config_entry, "sensor")
AsyncUnloadEntry ==
    /\ unloadPc' = "awaiting"
    /\ UNCHANGED <<options_forecast, options_model, setupPc, listener,
                   runtime_data, entities, currentSensors>>
    /\ UNCHANGED cycleVars
    /\ NoRead
    /\ UNCHANGED condVars

\* The loaded entry is unloaded (disabled or removed by the user)
UnloadEntry ==
    /\ setupPc = Loaded
    /\ unloadPc = "none"
    /\ AsyncUnloadEntry
    /\ UNCHANGED reloads

\* __init__.py:37-39: one scheduled call of update_listener runs and
\* reloads the entry, async_reload(entry_id): a loaded entry is unloaded
\* first (the call of async_unload_entry) and the entry is set up again
\* after (SetupConstruct).  A reload waits for a setup or an unload in
\* progress; the other scheduled calls stay scheduled
UpdateListener ==
    /\ reloads > 0
    /\ unloadPc = "none"
    /\ reloads' = reloads - 1
    /\ \/ /\ setupPc = Loaded
          /\ AsyncUnloadEntry
       \/ /\ setupPc = 0
          /\ UNCHANGED <<options_forecast, options_model, unloadPc, setupPc,
                         listener, runtime_data, entities, currentSensors>>
          /\ UNCHANGED cycleVars
          /\ NoRead
          /\ UNCHANGED condVars

\* While async_unload_entry is suspended the sensor platform is unloaded
\* and its sensors are removed, or the unload is refused; the weather
\* platform is not unloaded
UnloadForward ==
    /\ unloadPc = "awaiting"
    /\ \E ok \in BOOLEAN :
          /\ unloadPc' = (IF ok THEN "unloaded" ELSE "refused")
          /\ currentSensors' = (IF ok THEN FALSE ELSE currentSensors)
    /\ UNCHANGED <<options_forecast, options_model, reloads, setupPc,
                   listener, runtime_data, entities>>
    /\ UNCHANGED cycleVars
    /\ NoRead
    /\ UNCHANGED condVars

\* __init__.py:44: async_unload_entry resumes and returns what
\* async_forward_entry_unload gave.  After True the entry is not loaded
\* and what was registered with async_on_unload is called: the update
\* listener is removed.  After False the entry stays as it is
UnloadReturn ==
    /\ unloadPc \in {"unloaded", "refused"}
    /\ unloadPc' = "none"
    /\ setupPc' = (IF unloadPc = "unloaded" THEN 0 ELSE setupPc)
    /\ listener' = (IF unloadPc = "unloaded" THEN FALSE ELSE listener)
    /\ UNCHANGED <<options_forecast, options_model, reloads, runtime_data,
                   entities, currentSensors>>
    /\ UNCHANGED cycleVars
    /\ NoRead
    /\ UNCHANGED condVars

\* The update_interval timer fires.  The timer is the base class's; a tick
\* starts a cycle only when none is in flight (single-flight)
Tick ==
    /\ setupPc = Loaded
    /\ outcome # "inflight"
    /\ BeginCycle("scheduled")

\* The fetch of endpoint ep came to its result r: the cycle runs on to its
\* next await, its return or its raise
Continue(ep, r) ==
    LET plan == FetchPlan(conf_forecast)
        l == Assign(locals, ep, r.value)
    IN /\ cycleKind' = cycleKind
       /\ IF r.raised
          THEN /\ RefreshFailed(UpdateFailed(r.err))
               /\ UNCHANGED <<locals, requests, returned>>
               /\ AfterCycle(FALSE)
          ELSE IF Len(requests) < Len(plan)
          THEN /\ locals' = l
               /\ requests' = Append(requests, plan[Len(requests) + 1])
               /\ data' = DataWhileFetching(data, l)
               /\ UNCHANGED <<last_update_success, last_exception,
                              outcome, setupPc, listener, returned>>
          ELSE /\ locals' = l
               /\ UNCHANGED requests
               /\ returned' = UpdateDataReturn(l)
               /\ Publish(UpdateDataReturn(l))
               /\ AfterCycle(TRUE)

\* coordinator.py:99, 115, 129: await self._clientsession.get(...) ends: a
\* response arrives for the request in flight, or the transport raises.
\* With a status that passes the check the fetch awaits the body; else it
\* returns or raises and the cycle runs on
Receive ==
    /\ outcome = "inflight"
    /\ Len(responses) < Len(requests)
    /\ LET ep == requests[Len(requests)]
       IN \E resp \in Responses(ep) :
            /\ responses' = Append(responses, resp)
            /\ IF AwaitsJson(resp)
               THEN /\ data' = DataWhileFetching(data, locals)
                    /\ UNCHANGED <<locals, cycleKind, requests, returned,
                                   last_update_success, last_exception,
                                   outcome, setupPc, listener>>
               ELSE Continue(ep, Fetch(ep, resp))
    /\ UNCHANGED entryVars
    /\ UNCHANGED <<conf_forecast, runtime_data, entities, dataBefore,
                   currentSensors, failedBefore>>
    /\ NoRead
    /\ UNCHANGED condVars

\* coordinator.py:102, 117, 131: await response.json() ends with the body
\* of the response, or raises on a body that is no JSON; the fetch
\* returns or raises and the cycle runs on
ReceiveBody ==
    /\ outcome = "inflight"
    /\ Len(responses) = Len(requests)
    /\ LET n == Len(requests)
           ep == requests[n]
       IN \E body \in Bodies(ep) :
            LET resp == [responses[n] EXCEPT !.body = body]
            IN /\ responses' = [responses EXCEPT ![n] = resp]
               /\ Continue(ep, Fetch(ep, resp))
    /\ UNCHANGED entryVars
    /\ UNCHANGED <<conf_forecast, runtime_data, entities, dataBefore,
                   currentSensors, failedBefore>>
    /\ NoRead
    /\ UNCHANGED condVars

\* What a read leaves as it is
readFrame ==
    <<options_forecast, options_model, reloads, unloadPc, conf_forecast,
      setupPc, listener, runtime_data, entities, last_update_success,
      last_exception, locals, cycleKind, requests, responses, outcome,
      dataBefore, returned, currentSensors, failedBefore>>

\* An entity reads coordinator.data
Read ==
    /\ entities
    /\ observed' = data
    /\ readInFlight' = (outcome = "inflight")
    /\ UNCHANGED data
    /\ UNCHANGED readFrame
    /\ fine' = <<>>
    /\ coarse' = <<>>
    /\ merged' = None
    /\ mpc' = "off"
    /\ UNCHANGED now
    /\ UNCHANGED condVars

---------------------------------------------------------------------------
(* KachelmannWeather._async_forecast_hourly: the merge of the fine (1 h)   *)
(* and the coarse (3 h) hourly series                                      *)

\* (item for item in data if item.get("dateTime"))
WithDateTimeKeepAll(s) == s
RECURSIVE WithDateTime(_)
WithDateTime(s) ==
    IF s = <<>> THEN <<>>
    ELSE IF Truthy(s[1].dateTime)
         THEN <<s[1]>> \o WithDateTime(Tail(s))
         ELSE WithDateTime(Tail(s))

\* key=lambda item: _parse_time(item.get("dateTime")) or dt_util.utcnow()
SortKey(item, t) ==
    IF ParseTime(item.dateTime) # NotParsed
    THEN ParseTime(item.dateTime).instant
    ELSE t

\* sorted() is stable: an entry goes behind every entry whose key is not
\* greater than its own
RECURSIVE InsertByKey(_, _, _)
InsertByKey(x, s, t) ==
    IF s = <<>> THEN <<x>>
    ELSE IF SortKey(s[1], t) <= SortKey(x, t)
         THEN <<s[1]>> \o InsertByKey(x, Tail(s), t)
         ELSE <<x>> \o s

RECURSIVE SortedFrom(_, _, _)
SortedFrom(s, acc, t) ==
    IF s = <<>> THEN acc
    ELSE SortedFrom(Tail(s), InsertByKey(s[1], acc, t), t)

Sorted(s, t) == SortedFrom(s, <<>>, t)

\* weather.py:503-505: every fine entry is appended and its dateTime noted
SeenTimes(s) == { s[i].dateTime : i \in 1..Len(s) }

\* weather.py:507-509
Last1hTimeFirst(sorted1h) ==
    IF sorted1h # <<>>
    THEN ParseTime(sorted1h[1].dateTime)
    ELSE NotParsed
Last1hTime(sorted1h) ==
    IF sorted1h # <<>>
    THEN ParseTime(sorted1h[Len(sorted1h)].dateTime)
    ELSE NotParsed

\* weather.py:515-524: the loop over the sorted coarse entries
RECURSIVE AppendCoarsePrepend(_, _, _, _)
AppendCoarsePrepend(s, acc, seen, last) ==
    IF s = <<>> THEN acc
    ELSE LET item == s[1]
             dt_value == ParseTime(item.dateTime)
         IN IF dt_value = NotParsed
            THEN AppendCoarsePrepend(Tail(s), acc, seen, last)
            ELSE IF last # NotParsed /\ dt_value.instant <= last.instant
            THEN AppendCoarsePrepend(Tail(s), acc, seen, last)
            ELSE IF item.dateTime \in seen
            THEN AppendCoarsePrepend(Tail(s), acc, seen, last)
            ELSE AppendCoarsePrepend(Tail(s), <<item>> \o acc,
                                     seen \cup {item.dateTime}, last)
RECURSIVE AppendCoarse(_, _, _, _)
AppendCoarse(s, acc, seen, last) ==
    IF s = <<>> THEN acc
    ELSE LET item == s[1]
             dt_value == ParseTime(item.dateTime)
         IN IF dt_value = NotParsed
            THEN AppendCoarse(Tail(s), acc, seen, last)
            ELSE IF last # NotParsed /\ dt_value.instant <= last.instant
            THEN AppendCoarse(Tail(s), acc, seen, last)
            ELSE IF item.dateTime \in seen
            THEN AppendCoarse(Tail(s), acc, seen, last)
            ELSE AppendCoarse(Tail(s), Append(acc, item),
                              seen \cup {item.dateTime}, last)

\* weather.py:525-574: the forecast entry made of a merged entry
HourlyForecastItem(hour) ==
    [datetime |-> hour.dateTime, native_temperature |-> hour.temp]

\* weather.py:480-574 on the two lists data_1h, data_3h
MergeHourlyNoEarlyReturn(data_1h, data_3h, t) ==
    LET sorted1h == Sorted(WithDateTime(data_1h), t)
        sorted3h == Sorted(WithDateTime(data_3h), t)
        all == AppendCoarse(sorted3h, sorted1h, SeenTimes(sorted1h),
                            Last1hTime(sorted1h))
    IN ListOf([i \in 1..Len(all) |-> HourlyForecastItem(all[i])])
MergeHourly(data_1h, data_3h, t) ==
    IF data_1h = <<>> /\ data_3h = <<>>
    THEN None
    ELSE LET sorted1h == Sorted(WithDateTime(data_1h), t)
             sorted3h == Sorted(WithDateTime(data_3h), t)
             all == AppendCoarse(sorted3h, sorted1h, SeenTimes(sorted1h),
                                 Last1hTime(sorted1h))
         IN ListOf([i \in 1..Len(all) |-> HourlyForecastItem(all[i])])

\* weather.py:482-485: (payload or {}).get("data") or []
DataList(payload) ==
    IF ~TruthyValue(payload) THEN <<>>
    ELSE IF ~TruthyValue(Get(payload, "data")) THEN <<>>
    ELSE payload.data

\* _async_forecast_hourly on a snapshot
AsyncForecastHourly(d, t) ==
    MergeHourly(DataList(Get(d, "forecast_hourly")),
                DataList(Get(d, "forecast_hourly_3h")), t)

\* weather.py:499-524: the snapshot after _async_forecast_hourly; sorted()
\* builds new lists and the entries are only read
SnapshotAfterForecastHourlySortInPlace(d, t) ==
    IF DataList(Get(d, "forecast_hourly")) = <<>> THEN d
    ELSE [d EXCEPT !.forecast_hourly.data = Sorted(WithDateTime(@), t)]
SnapshotAfterForecastHourly(d, t) == d

\* weather.py:426-465: the forecast entry made of a day of the trend
DailyForecastItem(day_data) ==
    [datetime |-> Get(day_data, "dateTime"),
     native_temperature |-> Get(day_data, "tempMax")]

\* weather.py:417-477: _async_forecast_daily on a snapshot
AsyncForecastDaily(conf, d) ==
    IF ~conf THEN None
    ELSE IF DataList(Get(d, "forecast")) = <<>> THEN None
    ELSE LET days == Get(d, "forecast").data
         IN ListOf([i \in 1..Len(days) |-> DailyForecastItem(days[i])])

\* weather.py:425-476: the snapshot after _async_forecast_daily; every
\* entry is a new dict and the days are only read
SnapshotAfterForecastDaily(d) == d

---------------------------------------------------------------------------
(* The condition mapper: KachelmannWeather._get_condition_from_weather_symbol *)

\* A Python str where None is possible too (str | None)
Str(s) == [str |-> s]

\* const.py:52-78; the values are the names of Home Assistant's condition
\* constants
CONDITIONS_MAP ==
    [ sunshine_night |-> "ATTR_CONDITION_CLEAR_NIGHT",
      cloudy |-> "ATTR_CONDITION_CLOUDY",
      fog |-> "ATTR_CONDITION_FOG",
      hail |-> "ATTR_CONDITION_HAIL",
      thunderstorm |-> "ATTR_CONDITION_LIGHTNING",
      rainheavy |-> "ATTR_CONDITION_LIGHTNING_RAINY",
      partlycloudy |-> "ATTR_CONDITION_PARTLYCLOUDY",
      showersheavy |-> "ATTR_CONDITION_POURING",
      showers_moderate |-> "ATTR_CONDITION_RAINY",
      snow |-> "ATTR_CONDITION_SNOWY",
      snowrain |-> "ATTR_CONDITION_SNOWY_RAINY",
      sunshine |-> "ATTR_CONDITION_SUNNY",
      overcast |-> "ATTR_CONDITION_CLOUDY",
      partlycloudy2 |-> "ATTR_CONDITION_PARTLYCLOUDY",
      showers_light |-> "ATTR_CONDITION_RAINY",
      showers_rain_light |-> "ATTR_CONDITION_RAINY",
      rain |-> "ATTR_CONDITION_RAINY",
      rain_light |-> "ATTR_CONDITION_RAINY",
      rain_moderate |-> "ATTR_CONDITION_RAINY",
      snowrainshowers |-> "ATTR_CONDITION_SNOWY_RAINY",
      snowrainshowersheavy |-> "ATTR_CONDITION_SNOWY_RAINY",
      snowrainheavy |-> "ATTR_CONDITION_SNOWY_RAINY",
      snowshowers |-> "ATTR_CONDITION_SNOWY",
      snowshowersheavy |-> "ATTR_CONDITION_SNOWY",
      snowheavy |-> "ATTR_CONDITION_SNOWY" ]

\* CONDITIONS_MAP.get(key)
ConditionsMapGet(key) ==
    IF key \in DOMAIN CONDITIONS_MAP THEN Str(CONDITIONS_MAP[key]) ELSE None

\* weather.py:83-87
DayNight == {"day", "night"}

\* weather.py:214-228
GetConditionNightAny(sym, dn) ==
    IF sym = None \/ sym = Str("") THEN Returns(None)
    ELSE IF dn # "day"
    THEN Returns(ConditionsMapGet("sunshine_night"))
    ELSE Returns(ConditionsMapGet(sym.str))
GetConditionIndexing(sym, dn) ==
    IF sym = None \/ sym = Str("") THEN Returns(None)
    ELSE IF dn # "day" /\ sym = Str("sunshine")
    THEN Returns(ConditionsMapGet("sunshine_night"))
    ELSE IF sym.str \in DOMAIN CONDITIONS_MAP
    THEN Returns(Str(CONDITIONS_MAP[sym.str]))
    ELSE Raises(KeyError)
GetConditionFromWeatherSymbol(sym, dn) ==
    IF sym = None \/ sym = Str("") THEN Returns(None)
    ELSE IF dn # "day" /\ sym = Str("sunshine")
    THEN Returns(ConditionsMapGet("sunshine_night"))
    ELSE Returns(ConditionsMapGet(sym.str))

\* A key the data does not hold, and a boolean the data holds
NoKey == [nokey |-> TRUE]
Bool(b) == [bool |-> b]

\* weather.py:237-242 (the 'value' of "isDay", None when the key is missing)
ConditionDayNightDefaultDay(flag) ==
    IF flag = Bool(TRUE) \/ flag = NoKey THEN "day" ELSE "night"
ConditionDayNight(flag) ==
    IF flag = Bool(TRUE) THEN "day" ELSE "night"

\* weather.py:468-472
DailyDayNight(flag) ==
    IF flag = NoKey \/ flag = Bool(TRUE) THEN "day" ELSE "night"

\* weather.py:540
HourlyDayNight(flag) ==
    IF flag = NoKey \/ flag = Bool(TRUE) THEN "day" ELSE "night"

\* weather.py:237-244, for current data that is not empty
ConditionProperty(sym, flag) ==
    GetConditionFromWeatherSymbol(sym, ConditionDayNight(flag))

\* weather.py:466-475; without a symbol the entry gets no condition and
\* reads as None
DailyCondition(sym, flag) ==
    IF sym = None \/ sym = Str("") THEN Returns(None)
    ELSE GetConditionFromWeatherSymbol(sym, DailyDayNight(flag))

\* weather.py:537-542
HourlyCondition(sym, flag) ==
    GetConditionFromWeatherSymbol(sym, HourlyDayNight(flag))

\* The values of the is-day flag: missing, null, true, false
IsDayValues == {NoKey, None, Bool(TRUE), Bool(FALSE)}

\* The symbols the mapper is called with: None, the empty string, every
\* key of the table and two strings that are no key
Symbols ==
    {None, Str("")}
    \cup {Str(k) : k \in DOMAIN CONDITIONS_MAP}
    \cup {Str("unknown_code_xyz"), Str("windy")}

---------------------------------------------------------------------------
(* Inputs of the merge *)

MaxFine == 2
MaxCoarse == 2

TsValues ==
    {TsNone, TsBad, Iso(9, 0), Iso(10, 0), Iso(11, 0), Iso(12, 1),
     Iso(14, 0)}

NowValues == {8, 12}

SeriesOf(temp, n) ==
    UNION { [1..k -> {Item(ts, temp) : ts \in TsValues}] : k \in 0..n }

InitCoord ==
    /\ setupPc = 0
    /\ options_model = NoOption
    /\ reloads = 0
    /\ unloadPc = "none"
    /\ listener = FALSE
    /\ runtime_data = FALSE
    /\ entities = FALSE
    /\ data = None
    /\ last_update_success = TRUE
    /\ last_exception = NoError
    /\ locals = NoLocals
    /\ cycleKind = "first"
    /\ requests = <<>>
    /\ responses = <<>>
    /\ outcome = "none"
    /\ dataBefore = None
    /\ returned = None
    /\ observed = None
    /\ readInFlight = FALSE
    /\ currentSensors = FALSE
    /\ failedBefore = FALSE

\* No call of the condition mapper
Pending == [pending |-> TRUE]
InitNoCondition ==
    /\ symbol = None
    /\ day_night = "day"
    /\ condition = Pending
    /\ is_day = NoKey
    /\ site = "none"

InitMerge ==
    /\ options_forecast = CONF_FORECAST_DEFAULT
    /\ conf_forecast = CONF_FORECAST_DEFAULT
    /\ InitCoord
    /\ fine \in SeriesOf(FineTemp, MaxFine)
    /\ coarse \in SeriesOf(CoarseTemp, MaxCoarse)
    /\ now \in NowValues
    /\ merged = None
    /\ mpc = "input"
    /\ InitNoCondition

DoMerge ==
    /\ mpc = "input"
    /\ merged' = MergeHourly(fine, coarse, now)
    /\ mpc' = "done"
    /\ UNCHANGED <<fine, coarse, now>>
    /\ UNCHANGED coordVars
    /\ UNCHANGED condVars

NextMerge == DoMerge

SpecMerge == InitMerge /\ [][NextMerge]_vars

InitCondition ==
    /\ options_forecast = CONF_FORECAST_DEFAULT
    /\ conf_forecast = CONF_FORECAST_DEFAULT
    /\ InitCoord
    /\ fine = <<>>
    /\ coarse = <<>>
    /\ now = 0
    /\ merged = None
    /\ mpc = "off"
    /\ symbol \in Symbols
    /\ day_night \in DayNight
    /\ condition = Pending
    /\ is_day \in IsDayValues
    /\ site = "none"

\* The mapper is called with a WeatherConditionInput
MapCondition ==
    /\ condition = Pending
    /\ condition' = GetConditionFromWeatherSymbol(symbol, day_night)
    /\ site' = "mapper"
    /\ UNCHANGED <<symbol, day_night, is_day>>
    /\ UNCHANGED coordVars
    /\ UNCHANGED mergeVars

\* The 'condition' property is read on current data with this symbol and
\* this flag
ConditionOfCurrent ==
    /\ condition = Pending
    /\ day_night' = ConditionDayNight(is_day)
    /\ condition' = ConditionProperty(symbol, is_day)
    /\ site' = "current"
    /\ UNCHANGED <<symbol, is_day>>
    /\ UNCHANGED coordVars
    /\ UNCHANGED mergeVars

\* A daily forecast entry is built from a day with this symbol and flag
ConditionOfDaily ==
    /\ condition = Pending
    /\ day_night' = DailyDayNight(is_day)
    /\ condition' = DailyCondition(symbol, is_day)
    /\ site' = "daily"
    /\ UNCHANGED <<symbol, is_day>>
    /\ UNCHANGED coordVars
    /\ UNCHANGED mergeVars

\* An hourly forecast entry is built from an hour with this symbol and flag
ConditionOfHourly ==
    /\ condition = Pending
    /\ day_night' = HourlyDayNight(is_day)
    /\ condition' = HourlyCondition(symbol, is_day)
    /\ site' = "hourly"
    /\ UNCHANGED <<symbol, is_day>>
    /\ UNCHANGED coordVars
    /\ UNCHANGED mergeVars

NextCondition ==
    \/ MapCondition
    \/ ConditionOfCurrent
    \/ ConditionOfDaily
    \/ ConditionOfHourly

SpecCondition == InitCondition /\ [][NextCondition]_vars

Init ==
    /\ options_forecast = CONF_FORECAST_DEFAULT
    /\ conf_forecast = CONF_FORECAST_DEFAULT
    /\ InitCoord
    /\ fine = <<>>
    /\ coarse = <<>>
    /\ now = 0
    /\ merged = None
    /\ mpc = "off"
    /\ InitNoCondition

\* The weather entity is asked for its hourly forecast: it runs
\* _async_forecast_hourly on coordinator.data
ForecastHourly ==
    /\ entities
    /\ fine' = DataList(Get(data, "forecast_hourly"))
    /\ coarse' = DataList(Get(data, "forecast_hourly_3h"))
    /\ merged' = AsyncForecastHourly(data, now)
    /\ mpc' = "done"
    /\ observed' = data
    /\ readInFlight' = (outcome = "inflight")
    /\ data' = SnapshotAfterForecastHourly(data, now)
    /\ UNCHANGED now
    /\ UNCHANGED readFrame
    /\ UNCHANGED condVars

\* The weather entity is asked for its daily forecast: it runs
\* _async_forecast_daily on coordinator.data
ForecastDaily ==
    /\ entities
    /\ fine' = <<>>
    /\ coarse' = <<>>
    /\ merged' = AsyncForecastDaily(options_forecast, data)
    /\ mpc' = "daily"
    /\ observed' = data
    /\ readInFlight' = (outcome = "inflight")
    /\ data' = SnapshotAfterForecastDaily(data)
    /\ UNCHANGED now
    /\ UNCHANGED readFrame
    /\ UNCHANGED condVars

Next ==
    \/ SetupConstruct
    \/ SetupFirstRefresh
    \/ SetupStoreRuntimeData
    \/ SetupForwardPlatforms
    \/ SetupReturn
    \/ OptionsFlow
    \/ UpdateListener
    \/ UnloadEntry
    \/ UnloadForward
    \/ UnloadReturn
    \/ Tick
    \/ Receive
    \/ ReceiveBody
    \/ Read
    \/ ForecastHourly
    \/ ForecastDaily

Spec == Init /\ [][Next]_vars

---------------------------------------------------------------------------
(* Properties of the refresh cycle *)

\* The cycle in the state got a response from endpoint ep
HasResp(ep) ==
    \E i \in 1..Len(responses) : requests[i] = ep
Resp(ep) ==
    responses[CHOOSE i \in 1..Len(responses) : requests[i] = ep]

\* The response carries a status outside 200..299
Non2xx(r) == r.kind = "http" /\ (r.status < 200 \/ r.status > 299)
\* The response carries a status in 200..299 and a body that was read
\* and decodes
Good2xx(r) ==
    /\ r.kind = "http"
    /\ r.status >= 200 /\ r.status <= 299
    /\ r.body # Unread
    /\ r.body # Malformed
\* The fetch of the response throws: the transport fails, or the body of
\* a 2xx response does not decode
Throws(r) ==
    \/ r.kind = "transport_error"
    \/ /\ r.kind = "http"
       /\ r.status >= 200 /\ r.status <= 299
       /\ r.body = Malformed
ThrownBy(r) ==
    IF r.kind = "transport_error" THEN TransportError ELSE JsonError

SnapshotKeys ==
    {"current", "forecast", "forecast_hourly", "forecast_hourly_3h"}
\* The endpoint a field of the snapshot comes from
EndpointOf(key) ==
    CASE key = "forecast" -> "trend"
      [] key = "forecast_hourly" -> "hourly"
      [] key = "current" -> "current"
      [] key = "forecast_hourly_3h" -> "hourly_3h"

\* C1: with forecast enabled, a trend response whose status is outside
\* 200..299 ends the cycle as failed (UpdateFailed), and coordinator.data
\* is still the snapshot published before the cycle.
C1_TrendStatusFailsCycle ==
    (conf_forecast /\ HasResp("trend") /\ Non2xx(Resp("trend")))
    => /\ outcome = "failed"
       /\ last_exception =
              UpdateFailed(StatusError(Resp("trend").status, "trend"))
       /\ ~last_update_success
       /\ data = dataBefore
       /\ returned = dataBefore

\* A scheduled cycle whose trend request was answered 503 has failed and
\* the snapshot of an earlier cycle is still published.
C1_Witness ==
    /\ conf_forecast
    /\ cycleKind = "scheduled"
    /\ outcome = "failed"
    /\ HasResp("trend") /\ Resp("trend").status = 503
    /\ dataBefore # None
    /\ data = dataBefore

\* C2: when the trend response is 2xx with a body that decodes, and the
\* hourly and current responses are either such a response or carry a
\* status outside 200..299, the cycle does not fail; once all three have
\* answered it has published a snapshot whose 'forecast' is the trend body
\* and whose 'forecast_hourly' resp. 'current' is None exactly if that
\* endpoint's status was outside 200..299 (and the body otherwise).
C2_DegradedCyclePublishes ==
    ( /\ conf_forecast
      /\ HasResp("trend") /\ Good2xx(Resp("trend"))
      /\ \A ep \in {"hourly", "current"} :
            HasResp(ep) => (Non2xx(Resp(ep)) \/ Good2xx(Resp(ep))) )
    => /\ outcome # "failed"
       /\ Len(responses) = 3 => outcome = "published"
       /\ outcome = "published" =>
            /\ data.forecast = Resp("trend").body
            /\ data.forecast # None
            /\ data.forecast_hourly =
                 (IF Non2xx(Resp("hourly")) THEN None
                  ELSE Resp("hourly").body)
            /\ data.current =
                 (IF Non2xx(Resp("current")) THEN None
                  ELSE Resp("current").body)
            /\ last_update_success

\* A cycle with trend 200, hourly 503 and current 200 has published a
\* snapshot with the trend and current fields set and the hourly one None.
C2_Witness ==
    /\ outcome = "published"
    /\ conf_forecast
    /\ Resp("trend").status = 200
    /\ Resp("hourly").status = 503
    /\ Good2xx(Resp("current"))
    /\ data.forecast \in TrendPayloads
    /\ data.forecast_hourly = None
    /\ data.current \in CurrentPayloads

\* C3: with forecast disabled a cycle requests no endpoint, never fails
\* and publishes a snapshot in which all four fields read as None.
C3_DisabledCycleFetchesNothing ==
    ~conf_forecast
    => /\ requests = <<>>
       /\ responses = <<>>
       /\ outcome \in {"none", "published"}
       /\ outcome = "published" =>
            \A key \in SnapshotKeys : Get(data, key) = None

\* A scheduled cycle with forecast disabled has published.
C3_Witness ==
    /\ ~conf_forecast
    /\ cycleKind = "scheduled"
    /\ outcome = "published"
    /\ data # None
    /\ requests = <<>>

\* C4: a fetch that throws (transport error, or a 2xx body that does not
\* decode), whichever the endpoint, ends the cycle as failed with
\* UpdateFailed wrapping the error thrown, and nothing is published.
C4_ThrowingFetchFailsCycle ==
    \A i \in 1..Len(responses) :
        Throws(responses[i])
        => /\ outcome = "failed"
           /\ i = Len(responses)
           /\ last_exception = UpdateFailed(ThrownBy(responses[i]))
           /\ ~last_update_success
           /\ data = dataBefore
           /\ returned = dataBefore

\* The third fetch (current) of a scheduled cycle threw after the trend
\* and hourly fetches had delivered; the older snapshot is still there.
C4_Witness ==
    /\ cycleKind = "scheduled"
    /\ outcome = "failed"
    /\ Len(responses) = 3
    /\ requests[3] = "current"
    /\ Throws(responses[3])
    /\ locals.forecast_data # None
    /\ dataBefore # None
    /\ data = dataBefore

\* C5: coordinator.data is at every moment what the most recent cycle
\* that returned has returned: a cycle that fails leaves it as it was, a
\* cycle that returns replaces it by the returned dict.
C5_DataIsLastReturned ==
    /\ data = returned
    /\ outcome \in {"failed", "inflight"} => data = dataBefore
    /\ outcome = "published" => data = UpdateDataReturn(locals)

\* A cycle failed after its trend fetch had delivered a payload other
\* than the published one; the published snapshot is the older cycle's.
C5_Witness ==
    /\ outcome = "failed"
    /\ cycleKind = "scheduled"
    /\ data # None
    /\ locals.forecast_hourly # None
    /\ Get(data, "forecast_hourly") # None
    /\ locals.forecast_hourly # data.forecast_hourly
    /\ data = returned

\* C7: the coordinator is stored as runtime_data, and the platforms are
\* set up, only after the first refresh has published a snapshot: where
\* either holds, coordinator.data is a snapshot.
C7_FirstRefreshBeforeConsumers ==
    /\ (runtime_data \/ entities) => data # None
    /\ (runtime_data \/ entities) => returned # None
    /\ entities => runtime_data
    /\ (runtime_data \/ entities) => cycleKind = "scheduled" \/ outcome = "published"

\* The entry is loaded: the platforms are set up on a coordinator whose
\* first refresh has published.
C7_Witness ==
    /\ setupPc = Loaded
    /\ entities
    /\ runtime_data
    /\ cycleKind = "first"
    /\ outcome = "published"
    /\ data # None

\* C8: what a reader of coordinator.data gets while a cycle is in flight
\* is the snapshot published before the cycle, whole; after the cycle it
\* is that or the snapshot the cycle published, never a mix of the two.
C8_ReadersSeeWholeSnapshots ==
    /\ readInFlight => observed = dataBefore
    /\ (entities /\ observed # None) => observed \in {dataBefore, data}
    /\ outcome = "inflight" => data = dataBefore

\* A reader read between the fetches of a cycle whose trend fetch had
\* already delivered a payload other than the published one.
C8_Witness ==
    /\ readInFlight
    /\ outcome = "inflight"
    /\ Len(responses) >= 2
    /\ locals.forecast_hourly # None
    /\ dataBefore # None
    /\ Get(dataBefore, "forecast_hourly") # None
    /\ locals.forecast_hourly # dataBefore.forecast_hourly
    /\ observed = dataBefore

\* The fetch of endpoint ep failed in the cycle: it was answered with a
\* status outside 200..299
FetchFailed(ep) == HasResp(ep) /\ Non2xx(Resp(ep))

\* C9 as claimed: in a published snapshot each of the four fields is
\* None only if forecast is disabled or that field's endpoint failed in
\* the cycle.
C9_Original ==
    outcome = "published"
    => \A key \in SnapshotKeys :
          Get(data, key) = None
          => (~conf_forecast \/ FetchFailed(EndpointOf(key)))

\* C9 amended: in a published snapshot each of the three fields
\* 'forecast', 'forecast_hourly', 'current' is None only if forecast is
\* disabled or that field's endpoint answered with a status outside
\* 200..299 in the cycle; 'forecast_hourly_3h' is None in every snapshot.
C9_FetchedFieldsAbsentOnlyOnFailure ==
    outcome = "published"
    => /\ \A key \in SnapshotKeys \ {"forecast_hourly_3h"} :
             Get(data, key) = None
             => (~conf_forecast \/ FetchFailed(EndpointOf(key)))
       /\ Get(data, "forecast_hourly_3h") = None

\* With forecast enabled a snapshot was published whose 'current' is None
\* after the current endpoint answered 503, its other two fields set.
C9_Witness ==
    /\ outcome = "published"
    /\ conf_forecast
    /\ Get(data, "current") = None
    /\ HasResp("current") /\ Resp("current").status = 503
    /\ Get(data, "forecast") # None
    /\ Get(data, "forecast_hourly") # None

---------------------------------------------------------------------------
(* Properties of the hourly merge *)

\* The merge has run and delivered a list
MergeDone == mpc = "done" /\ merged # None

\* Ascending by timestamp: of two entries whose timestamps parse, the
\* earlier in the list is not the later in time
Instant(ts) == ParseTime(ts).instant
SortedAscending(m) ==
    \A i, j \in 1..Len(m) :
        (i < j /\ ParseTime(m[i].datetime) # NotParsed
               /\ ParseTime(m[j].datetime) # NotParsed)
        => Instant(m[i].datetime) <= Instant(m[j].datetime)

\* No two entries carry the same dateTime value
NoDuplicateTimes(m) ==
    \A i, j \in 1..Len(m) : i < j => m[i].datetime # m[j].datetime

\* Every entry of the series carries a timestamp that parses
AllTimesParse(s) ==
    \A i \in 1..Len(s) : ParseTime(s[i].dateTime) # NotParsed

\* C10 as claimed: for every fine and coarse series of entries with valid
\* timestamps, the fine one with repeated timestamps or not, the merged
\* forecast is sorted ascending by timestamp and has no two entries with
\* the same timestamp.
C10_Original ==
    (MergeDone /\ AllTimesParse(fine) /\ AllTimesParse(coarse))
    => (SortedAscending(merged.list) /\ NoDuplicateTimes(merged.list))

\* The fine entries that carry a dateTime carry one that parses, and no
\* two of them carry the same
FineTimesParseAndDiffer ==
    /\ \A i \in 1..Len(fine) :
          Truthy(fine[i].dateTime) => ParseTime(fine[i].dateTime) # NotParsed
    /\ \A i, j \in 1..Len(fine) :
          (i < j /\ Truthy(fine[i].dateTime))
          => fine[i].dateTime # fine[j].dateTime

\* C10 amended: when the timestamps of the fine series parse and are
\* pairwise distinct, every timestamp of the merged forecast parses, the
\* forecast is sorted ascending by timestamp and no two of its entries
\* carry the same dateTime value.
C10_MergedSortedNoDuplicates ==
    (MergeDone /\ FineTimesParseAndDiffer)
    => /\ \A i \in 1..Len(merged.list) :
             ParseTime(merged.list[i].datetime) # NotParsed
       /\ SortedAscending(merged.list)
       /\ NoDuplicateTimes(merged.list)

\* A merge of two fine entries given out of order and two coarse entries
\* of which one is dropped and one is kept.
C10_Witness ==
    /\ MergeDone
    /\ FineTimesParseAndDiffer
    /\ Len(fine) = 2 /\ Len(coarse) = 2
    /\ ParseTime(fine[1].dateTime) # NotParsed
    /\ ParseTime(fine[2].dateTime) # NotParsed
    /\ Instant(fine[1].dateTime) > Instant(fine[2].dateTime)
    /\ Len(merged.list) = 3
    /\ merged.list[3].native_temperature = CoarseTemp

\* C12: when the data lists of both hourly fields are empty, or the
\* fields are None in the snapshot, the hourly forecast the weather
\* entity computes from coordinator.data is None, not an empty list.
C12_BothEmptyGivesNone ==
    (entities /\ mpc = "done" /\ fine = <<>> /\ coarse = <<>>)
    => /\ merged = None
       /\ merged # ListOf(<<>>)

\* The hourly forecast was asked for after a cycle in which the hourly
\* endpoint answered 503, as it had in the cycle before: the snapshot
\* read has no 'forecast_hourly' and no 'forecast_hourly_3h', and the
\* forecast is None.
C12_Witness ==
    /\ entities /\ mpc = "done"
    /\ conf_forecast
    /\ outcome = "published"
    /\ HasResp("hourly") /\ Resp("hourly").status = 503
    /\ dataBefore # None
    /\ Get(dataBefore, "forecast_hourly") = None
    /\ Get(data, "forecast_hourly") = None
    /\ Get(data, "forecast_hourly_3h") = None
    /\ Get(data, "forecast") # None
    /\ merged = None

\* C19: the trend fetcher reads the body exactly when the status is in
\* 200..299 (the cycle waits for the body; then its JSON is the fetch's
\* result, or the decoding error is the cycle's failure); with any other
\* status the body is not read and the cycle fails with an error that
\* carries the status and the URL.
C19_TrendParsesExactly2xx ==
    (conf_forecast /\ HasResp("trend") /\ Resp("trend").kind = "http")
    => LET r == Resp("trend")
       IN IF 200 <= r.status /\ r.status <= 299
          THEN /\ r.body = Unread
                  => /\ outcome = "inflight"
                     /\ requests = <<"trend">>
                     /\ locals.forecast_data = None
               /\ (r.body # Unread /\ r.body # Malformed)
                  => /\ locals.forecast_data = r.body
                     /\ Len(requests) >= 2
               /\ r.body = Malformed
                  => /\ outcome = "failed"
                     /\ last_exception = UpdateFailed(JsonError)
          ELSE /\ r.body = Unread
               /\ locals.forecast_data = None
               /\ outcome = "failed"
               /\ last_exception.type = "UpdateFailed"
               /\ last_exception.cause.type = "UpdateFailed"
               /\ last_exception.cause.status = r.status
               /\ last_exception.cause.url = "trend"

\* The trend endpoint answered 304 and the cycle failed with the error
\* of that status and URL.
C19_Witness ==
    /\ conf_forecast
    /\ HasResp("trend")
    /\ Resp("trend").kind = "http"
    /\ Resp("trend").status = HTTP_NOT_MODIFIED
    /\ outcome = "failed"
    /\ last_exception = UpdateFailed(StatusError(304, "trend"))

\* The trend fetch of the cycle failed: by its status or by throwing
TrendFetchFailed ==
    /\ HasResp("trend")
    /\ Non2xx(Resp("trend")) \/ Throws(Resp("trend"))

\* C20: a cycle whose trend fetch failed has failed and published
\* nothing, with no say of the hourly and current endpoints: the cycle
\* ended at the trend fetch and did not ask them.
C20_TrendFailureAbortsCycle ==
    TrendFetchFailed
    => /\ outcome = "failed"
       /\ ~last_update_success
       /\ data = dataBefore
       /\ returned = dataBefore
       /\ requests = <<"trend">>
       /\ Len(responses) = 1
       /\ locals = NoLocals

\* The trend fetch of a scheduled cycle threw; the snapshot of the cycle
\* before, with all three fields set, is still published.
C20_Witness ==
    /\ cycleKind = "scheduled"
    /\ TrendFetchFailed
    /\ Throws(Resp("trend"))
    /\ outcome = "failed"
    /\ data # None
    /\ Get(data, "forecast") # None
    /\ Get(data, "forecast_hourly") # None
    /\ Get(data, "current") # None

\* C24: no snapshot the coordinator returns or publishes has an entry
\* 'forecast_hourly_3h', so the coarse list every hourly forecast call
\* reads is empty and every entry of the forecast is the forecast entry
\* of an entry of the fine list.
C24_NoCoarseSeriesInSnapshots ==
    /\ data # None => "forecast_hourly_3h" \notin DOMAIN data
    /\ returned # None => "forecast_hourly_3h" \notin DOMAIN returned
    /\ (entities /\ mpc = "done")
       => /\ coarse = <<>>
          /\ merged # None
             => \A i \in 1..Len(merged.list) :
                   \E j \in 1..Len(fine) :
                      merged.list[i] = HourlyForecastItem(fine[j])

\* The hourly forecast was computed from a snapshot whose fine list has
\* two entries: it has two entries and the coarse list read was empty.
C24_Witness ==
    /\ entities /\ mpc = "done"
    /\ observed # None
    /\ Get(observed, "forecast_hourly") # None
    /\ Get(observed, "forecast_hourly_3h") = None
    /\ Len(fine) = 2
    /\ coarse = <<>>
    /\ merged # None
    /\ Len(merged.list) = 2

\* C22: reading a property, the hourly forecast or the daily forecast
\* leaves coordinator.data as it was: no key, list or entry of it is
\* added, removed, reordered or modified (a step that changes
\* coordinator.data is none of the reads).
C22_ReadsLeaveSnapshot ==
    [][data' # data => ~(Read \/ ForecastHourly \/ ForecastDaily)]_vars

\* The hourly forecast has been computed from a snapshot whose fine list
\* is not in time order: the forecast is in time order and the list of
\* the snapshot is as it was delivered.
C22_Witness ==
    /\ entities /\ mpc = "done"
    /\ observed = data
    /\ data = returned
    /\ Len(DataList(Get(data, "forecast_hourly"))) = 2
    /\ data.forecast_hourly.data[1].dateTime = Iso(11, 0)
    /\ data.forecast_hourly.data[2].dateTime = Iso(10, 0)
    /\ merged # None
    /\ merged.list[1].datetime = Iso(10, 0)
    /\ merged.list[2].datetime = Iso(11, 0)

\* The i-th fetch of the cycle ended with a fatal error: it threw, or it
\* was the trend fetch and the status was outside 200..299
FatalAt(i) ==
    \/ Throws(responses[i])
    \/ requests[i] = "trend" /\ Non2xx(responses[i])

\* C23: the requests of a cycle are a prefix of trend, hourly, current;
\* each but the last has been answered without a fatal error, its body
\* read if its status asked for that, before the next was issued; after a
\* failed trend fetch the trend request is the only one of the cycle.
C23_RequestsInOrderAfterSuccess ==
    /\ Len(requests) <= 3
    /\ \A i \in 1..Len(requests) :
          requests[i] = <<"trend", "hourly", "current">>[i]
    /\ Len(responses) <= Len(requests)
    /\ Len(requests) <= Len(responses) + 1
    /\ \A i \in 1..Len(responses) :
          i < Len(requests)
          => /\ ~FatalAt(i)
             /\ Non2xx(responses[i]) \/ Good2xx(responses[i])
    /\ TrendFetchFailed => requests = <<"trend">>

\* The current request is in flight after the trend endpoint delivered
\* and the hourly endpoint answered 503.
C23_Witness ==
    /\ outcome = "inflight"
    /\ requests = <<"trend", "hourly", "current">>
    /\ Len(responses) = 2
    /\ Good2xx(responses[1])
    /\ responses[2].status = 503

---------------------------------------------------------------------------
(* Properties of the weather entity and the sensors *)

\* What the weather entity reports as available in the state
IsAvailable == Available(last_update_success, data)

\* C16 as claimed: with the entities set up, the weather entity is
\* unavailable after a failed cycle and until a cycle succeeds, and
\* available after the successful cycle that follows a failed one.
C16_Original ==
    entities
    => /\ outcome = "failed" => ~IsAvailable
       /\ (failedBefore /\ outcome = "inflight") => ~IsAvailable
       /\ (failedBefore /\ outcome = "published") => IsAvailable

\* C16 amended: the weather entity is unavailable after a failed cycle
\* and until a cycle succeeds; after the successful cycle that follows a
\* failed one it is available if the current endpoint delivered its
\* payload in that cycle, and unavailable if that endpoint answered with
\* a status outside 200..299.
C16_UnavailableUntilCurrentDelivered ==
    entities
    => /\ outcome = "failed" => ~IsAvailable
       /\ (failedBefore /\ outcome = "inflight") => ~IsAvailable
       /\ (failedBefore /\ outcome = "published" /\ HasResp("current")
              /\ Good2xx(Resp("current"))) => IsAvailable
       /\ (failedBefore /\ outcome = "published" /\ HasResp("current")
              /\ Non2xx(Resp("current"))) => ~IsAvailable

\* After a failed cycle, a cycle in which all three endpoints delivered
\* has published, and the weather entity is available again.
C16_Witness ==
    /\ entities
    /\ failedBefore
    /\ outcome = "published"
    /\ HasResp("current") /\ HasResp("hourly")
    /\ Good2xx(Resp("current"))
    /\ Good2xx(Resp("hourly"))
    /\ IsAvailable

\* The cycle has published after the endpoint answered outside 200..299
Degraded(ep) == outcome = "published" /\ HasResp(ep) /\ Non2xx(Resp(ep))

\* C17 as claimed: after a cycle that published although the hourly or
\* the current endpoint answered with a status outside 200..299, the
\* weather entity is available.
C17_Original ==
    (entities /\ (Degraded("hourly") \/ Degraded("current")))
    => IsAvailable

\* C17 amended: after a cycle that published although the hourly
\* endpoint answered with a status outside 200..299, the current endpoint
\* having delivered its payload, the weather entity is available; after
\* a cycle in which the current endpoint answered with a status outside
\* 200..299 the weather entity is unavailable.
C17_AvailableUnlessCurrentDegraded ==
    entities
    => /\ (Degraded("hourly") /\ Good2xx(Resp("current"))) => IsAvailable
       /\ Degraded("current") => ~IsAvailable

\* A scheduled cycle has published with the hourly endpoint answering
\* 503 and the current endpoint delivering; the entity is available.
C17_Witness ==
    /\ entities
    /\ cycleKind = "scheduled"
    /\ Degraded("hourly") /\ Resp("hourly").status = 503
    /\ Good2xx(Resp("current"))
    /\ Get(data, "forecast_hourly") = None
    /\ IsAvailable

\* C18 as claimed: once a cycle has published a snapshot whose 'current'
\* is None, the weather entity's reader of a current value and the
\* current-value sensor created from an earlier snapshot both return
\* None and do not raise.
C18_Original ==
    (entities /\ outcome = "published" /\ Get(data, "current") = None)
    => /\ GetCurrentData(data) = None
       /\ NativeTemperature(data) = Returns(None)
       /\ currentSensors
          => CurrentTempSensorNativeValue(data) = Returns(None)

\* C27: the platforms are set up on the snapshot the first refresh
\* published, the current-value sensors are created then exactly if that
\* snapshot has a 'current' payload with a 'data' key, and for as long as
\* the entry is set up and the sensor platform is not being unloaded no
\* later step (no cycle, no read, no change of the options) creates or
\* removes them.
C27_CurrentSensorsFixedAtSetup ==
    [][ /\ (~entities /\ entities')
           => /\ cycleKind = "first"
              /\ outcome = "published"
              /\ data = returned
              /\ data' = data
              /\ currentSensors' =
                    (/\ Get(data, "current") # None
                     /\ "data" \in DOMAIN Get(data, "current"))
        /\ (entities /\ setupPc # 0 /\ setupPc' # 0
              /\ unloadPc # "awaiting")
           => /\ entities'
              /\ currentSensors' = currentSensors ]_vars

\* The current endpoint answered 503 in the first refresh and no current
\* sensor was created; a later cycle has published a 'current' payload
\* with 'data', and there is still none.
C27_Witness ==
    /\ setupPc = Loaded
    /\ unloadPc = "none"
    /\ entities
    /\ ~currentSensors
    /\ cycleKind = "scheduled"
    /\ outcome = "published"
    /\ HasResp("current")
    /\ Good2xx(Resp("current"))
    /\ Get(data, "current") # None
    /\ "data" \in DOMAIN Get(data, "current")

---------------------------------------------------------------------------
(* Properties of the condition mapper *)

\* The mapper has been called and has returned or raised
Mapped == condition # Pending

\* C14: 'sunshine' maps to the clear-night condition at night and to the
\* sunny condition by day; every other symbol maps to what the table
\* holds for it (None if it holds nothing), by day and at night alike.
C14_SunshineByDayNight ==
    (Mapped /\ symbol # None)
    => /\ (symbol = Str("sunshine") /\ day_night = "night")
          => condition = Returns(Str("ATTR_CONDITION_CLEAR_NIGHT"))
       /\ (symbol = Str("sunshine") /\ day_night = "day")
          => condition = Returns(Str("ATTR_CONDITION_SUNNY"))
       /\ symbol # Str("sunshine")
          => condition =
               Returns(IF symbol.str \in DOMAIN CONDITIONS_MAP
                       THEN Str(CONDITIONS_MAP[symbol.str])
                       ELSE None)

\* 'sunshine' at night has been mapped to the clear-night condition.
C14_Witness ==
    /\ Mapped
    /\ symbol = Str("sunshine")
    /\ day_night = "night"
    /\ condition = Returns(Str("ATTR_CONDITION_CLEAR_NIGHT"))
    /\ condition # Returns(Str("ATTR_CONDITION_SUNNY"))

\* C15: for a symbol that is None, the empty string or no key of the
\* table the mapper returns None and does not raise, by day and at night.
C15_NoConditionWithoutRaise ==
    ( /\ Mapped
      /\ \/ symbol = None
         \/ symbol = Str("")
         \/ symbol.str \notin DOMAIN CONDITIONS_MAP )
    => /\ ~condition.raised
       /\ condition = Returns(None)

\* A symbol that is no key of the table has been mapped at night.
C15_Witness ==
    /\ Mapped
    /\ symbol = Str("unknown_code_xyz")
    /\ day_night = "night"
    /\ condition = Returns(None)

\* C25: with the is-day flag missing from the data, a daily and an hourly
\* forecast entry are mapped as day ('sunshine' gives sunny) and the
\* current condition is mapped as night ('sunshine' gives clear-night).
C25_MissingFlagBySite ==
    (Mapped /\ is_day = NoKey /\ symbol # None /\ symbol # Str(""))
    => /\ site \in {"daily", "hourly"}
          => /\ day_night = "day"
             /\ symbol = Str("sunshine")
                => condition = Returns(Str("ATTR_CONDITION_SUNNY"))
       /\ site = "current"
          => /\ day_night = "night"
             /\ symbol = Str("sunshine")
                => condition = Returns(Str("ATTR_CONDITION_CLEAR_NIGHT"))

\* The current condition has been read for 'sunshine' with the flag
\* missing and is clear-night.
C25_Witness ==
    /\ site = "current"
    /\ is_day = NoKey
    /\ symbol = Str("sunshine")
    /\ day_night = "night"
    /\ condition = Returns(Str("ATTR_CONDITION_CLEAR_NIGHT"))

---------------------------------------------------------------------------
(* Properties of the hourly merge, continued *)

\* The entries of the merged forecast that came from the coarse series
IsCoarseEntry(e) == e.native_temperature = CoarseTemp

\* C13 as claimed: no entry whose timestamp is missing or does not parse,
\* of the fine or of the coarse series, is in the merged forecast.
C13_Original ==
    MergeDone
    => \A i \in 1..Len(merged.list) :
          ParseTime(merged.list[i].datetime) # NotParsed

\* The entries of the merged forecast that came from the fine series
IsFineEntry(e) == e.native_temperature = FineTemp

\* How many fine entries carry the dateTime value ts, and how many
\* entries of the merged forecast came from the fine series with it
FineCount(ts) ==
    Cardinality({j \in 1..Len(fine) : fine[j].dateTime = ts})
MergedFineCount(ts) ==
    Cardinality({i \in 1..Len(merged.list) :
                    /\ IsFineEntry(merged.list[i])
                    /\ merged.list[i].datetime = ts})

\* C21: every fine entry that carries a dateTime value is in the merged
\* forecast, as often as it is in the fine series, and no entry of the
\* coarse series stands before an entry of the fine series.
C21_FineBlockKeptAndFirst ==
    MergeDone
    => /\ \A ts \in TsValues :
             Truthy(ts) => MergedFineCount(ts) = FineCount(ts)
       /\ \A i, j \in 1..Len(merged.list) :
             (i < j /\ IsCoarseEntry(merged.list[i]))
             => IsCoarseEntry(merged.list[j])

\* Two fine entries given out of order, both kept, stand before the one
\* coarse entry that is kept of two.
C21_Witness ==
    /\ MergeDone
    /\ Len(fine) = 2 /\ Len(coarse) = 2
    /\ fine[1].dateTime = Iso(11, 0)
    /\ fine[2].dateTime = Iso(10, 0)
    /\ Len(merged.list) = 3
    /\ merged.list[1] = HourlyForecastItem(fine[2])
    /\ merged.list[2] = HourlyForecastItem(fine[1])
    /\ IsCoarseEntry(merged.list[3])

\* No entry of the series carries a dateTime value
NoDateTimes(s) == \A i \in 1..Len(s) : ~Truthy(s[i].dateTime)

\* C26: the hourly forecast is None exactly when both data lists are
\* empty; when a list is non-empty and no entry of either list carries a
\* dateTime value, the forecast is the empty list, not None.
C26_NoneExactlyWhenBothEmpty ==
    mpc = "done"
    => /\ merged = None <=> (fine = <<>> /\ coarse = <<>>)
       /\ ((fine # <<>> \/ coarse # <<>>)
              /\ NoDateTimes(fine) /\ NoDateTimes(coarse))
          => merged = ListOf(<<>>)

\* One fine and two coarse entries, none with a dateTime, have been
\* merged to the empty list.
C26_Witness ==
    /\ mpc = "done"
    /\ Len(fine) = 1 /\ Len(coarse) = 2
    /\ NoDateTimes(fine) /\ NoDateTimes(coarse)
    /\ merged # None
    /\ merged.list = <<>>

====
